---- MODULE Spec2Model ----
(***************************************************************************)
(* hserve: HTTPS static-file server.                                       *)
(*                                                                         *)
(* The model covers the request-time security boundary of                  *)
(* internal/app/hserve/handler.go (isPathSafe, isPathAllowed,              *)
(* isHiddenFileRequest, isRequestAllowed, handleRequest), the middleware   *)
(* chain built by applyMiddleware, and the way the command line turns      *)
(* -dir and the positional arguments into the share root and allow-list.   *)
(*                                                                         *)
(* Strings are sequences of one-character strings, so that                 *)
(* filepath.Clean / Join / Rel / Abs, strings.Split, strings.HasPrefix     *)
(* and strings.TrimPrefix are computed character by character and          *)
(* segment by segment as the Go code computes them.                        *)
(***************************************************************************)
EXTENDS Integers, Sequences, FiniteSets, TLC

(***************************************************************************)
(* Bounds of the model.                                                    *)
(***************************************************************************)
\* longest string handed to the path predicates when they are called directly
MaxLen == 5
\* longest r.URL.Path of a request that goes through the middleware chain
MaxUrlLen == 4

(***************************************************************************)
(* Strings.                                                                *)
(***************************************************************************)
Chars == {"/", ".", "d", "x"}

StringsUpTo(n) == UNION {[1..k -> Chars] : k \in 0..n}

Sep == "/"
Dot == <<".">>
DotDot == <<".", ".">>

\* strings.HasPrefix
HasPrefix(s, prefix) ==
  /\ Len(prefix) <= Len(s)
  /\ SubSeq(s, 1, Len(prefix)) = prefix

\* strings.TrimPrefix
TrimPrefix(s, prefix) ==
  IF HasPrefix(s, prefix) THEN SubSeq(s, Len(prefix) + 1, Len(s)) ELSE s

RECURSIVE SplitAcc(_, _, _)
SplitAcc(s, cur, acc) ==
  IF s = <<>> THEN Append(acc, cur)
  ELSE IF Head(s) = Sep THEN SplitAcc(Tail(s), <<>>, Append(acc, cur))
  ELSE SplitAcc(Tail(s), Append(cur, Head(s)), acc)

\* strings.Split(s, "/"): the segments between separators, empty ones kept
Split(s) == SplitAcc(s, <<>>, <<>>)

RECURSIVE JoinSegs(_)
\* strings.Join(segs, "/")
JoinSegs(segs) ==
  IF segs = <<>> THEN <<>>
  ELSE IF Len(segs) = 1 THEN segs[1]
  ELSE segs[1] \o <<Sep>> \o JoinSegs(Tail(segs))

\* the non-empty segments of a path
Elements(s) == SelectSeq(Split(s), LAMBDA seg : seg # <<>>)

\* filepath.IsAbs on Unix
IsAbs(p) == HasPrefix(p, <<Sep>>)

RECURSIVE CleanStack(_, _, _)
\* the element stack filepath.Clean builds: "." and empty elements are
\* dropped, ".." removes the element before it, is dropped at the root of a
\* rooted path and is kept at the front of a relative one
CleanStack(segs, stack, rooted) ==
  IF segs = <<>> THEN stack
  ELSE LET seg == Head(segs)
           rest == Tail(segs)
       IN IF seg = <<>> \/ seg = Dot THEN CleanStack(rest, stack, rooted)
          ELSE IF seg = DotDot
            THEN IF stack # <<>> /\ stack[Len(stack)] # DotDot
                   THEN CleanStack(rest, SubSeq(stack, 1, Len(stack) - 1), rooted)
                 ELSE IF rooted THEN CleanStack(rest, stack, rooted)
                 ELSE CleanStack(rest, Append(stack, DotDot), rooted)
          ELSE CleanStack(rest, Append(stack, seg), rooted)

\* filepath.Clean
Clean(path) ==
  LET rooted == IsAbs(path)
      stack == CleanStack(Split(path), <<>>, rooted)
  IN IF rooted THEN <<Sep>> \o JoinSegs(stack)
     ELSE IF stack = <<>> THEN Dot
     ELSE JoinSegs(stack)

\* filepath.Join(a, b): empty elements are ignored, the rest is joined with
\* a separator and cleaned; the join of nothing is the empty string
Join(a, b) ==
  IF a = <<>> /\ b = <<>> THEN <<>>
  ELSE IF a = <<>> THEN Clean(b)
  ELSE IF b = <<>> THEN Clean(a)
  ELSE Clean(a \o <<Sep>> \o b)

RECURSIVE CommonLen(_, _)
\* number of leading elements two element lists share
CommonLen(a, b) ==
  IF a = <<>> \/ b = <<>> \/ Head(a) # Head(b) THEN 0
  ELSE 1 + CommonLen(Tail(a), Tail(b))

\* filepath.Rel(basepath, targpath): [ok, path]
Rel(basepath, targpath) ==
  LET base == Clean(basepath)
      targ == Clean(targpath)
      be == IF base = Dot THEN <<>> ELSE Elements(base)
      te == Elements(targ)
      n == CommonLen(be, te)
      bRest == SubSeq(be, n + 1, Len(be))
      tRest == SubSeq(te, n + 1, Len(te))
      ups == [i \in 1..Len(bRest) |-> DotDot]
  IN IF targ = base THEN [ok |-> TRUE, path |-> Dot]
     ELSE IF IsAbs(base) # IsAbs(targ) THEN [ok |-> FALSE, path |-> <<>>]
     ELSE IF bRest # <<>> /\ bRest[1] = DotDot THEN [ok |-> FALSE, path |-> <<>>]
     ELSE [ok |-> TRUE, path |-> JoinSegs(ups \o tRest)]

(***************************************************************************)
(* The filesystem: a function from absolute clean paths to nodes.          *)
(***************************************************************************)
Dir == [kind |-> "dir", target |-> <<>>]
File == [kind |-> "file", target |-> <<>>]
Link(t) == [kind |-> "link", target |-> t]

\* the share root /d with a subdirectory, files, a dotfile, and /x, /dd outside
FsPlain ==
  ( <<"/">> :> Dir ) @@
  ( <<"/", "d">> :> Dir ) @@
  ( <<"/", "d", "/", "d">> :> Dir ) @@
  ( <<"/", "d", "/", "d", "/", "x">> :> File ) @@
  ( <<"/", "d", "/", "x">> :> File ) @@
  ( <<"/", "d", "/", ".", "x">> :> File ) @@
  ( <<"/", "d", "/", "d", "d">> :> File ) @@
  ( <<"/", "x">> :> Dir ) @@
  ( <<"/", "x", "/", "d">> :> File ) @@
  ( <<"/", "d", "d">> :> File )

\* the same tree where /d/x is a symlink to the directory /x outside the root
\* and /d/dd a relative symlink to the subdirectory /d/d
FsLinks ==
  ( <<"/">> :> Dir ) @@
  ( <<"/", "d">> :> Dir ) @@
  ( <<"/", "d", "/", "d">> :> Dir ) @@
  ( <<"/", "d", "/", "d", "/", "x">> :> File ) @@
  ( <<"/", "d", "/", "x">> :> Link(<<"/", "x">>) ) @@
  ( <<"/", "d", "/", ".", "x">> :> File ) @@
  ( <<"/", "d", "/", "d", "d">> :> Link(<<"d">>) ) @@
  ( <<"/", "x">> :> Dir ) @@
  ( <<"/", "x", "/", "d">> :> File ) @@
  ( <<"/", "d", "d">> :> File )

FileSystems == {FsPlain, FsLinks}

\* the path of element list es below the root directory
AbsOf(es) == <<Sep>> \o JoinSegs(es)

RECURSIVE WalkSymlinks(_, _, _)
\* filepath.EvalSymlinks on a clean absolute path: dest is the list of
\* elements resolved so far, rest the elements still to walk.
\* (the filesystems of the model have no symlink cycle)
WalkSymlinks(f, dest, rest) ==
  IF rest = <<>> THEN [err |-> "nil", path |-> AbsOf(dest)]
  ELSE LET seg == Head(rest)
           more == Tail(rest)
           next == Append(dest, seg)
       IN IF seg = Dot THEN WalkSymlinks(f, dest, more)
          ELSE IF seg = DotDot
            THEN WalkSymlinks(f, SubSeq(dest, 1, Len(dest) - 1), more)
          ELSE IF AbsOf(next) \notin DOMAIN f
            THEN [err |-> "ENOENT", path |-> <<>>]
          ELSE LET node == f[AbsOf(next)]
               IN IF node.kind = "link"
                    THEN IF IsAbs(node.target)
                           THEN WalkSymlinks(f, <<>>, Elements(node.target) \o more)
                         ELSE WalkSymlinks(f, dest, Elements(node.target) \o more)
                  ELSE IF node.kind = "file" /\ more # <<>>
                    THEN [err |-> "ENOTDIR", path |-> <<>>]
                  ELSE WalkSymlinks(f, next, more)

\* filepath.EvalSymlinks(path): [err, path]; on error the path is ""
EvalSymlinks(f, path) == WalkSymlinks(f, <<>>, Elements(path))

\* os.IsNotExist(err)
IsNotExist(err) == err = "ENOENT"

(***************************************************************************)
(* State.                                                                  *)
(***************************************************************************)
VARIABLES
  cwd,          \* working directory of the process
  fs,           \* the filesystem
  root,         \* Options.Root
  paths,        \* Options.Paths, the allow-list
  authUser,     \* Options.AuthUser
  authPass,     \* Options.AuthPass
  quiet,        \* Options.Quiet
  maxBodyBytes, \* Options.MaxBodyBytes
  guard,        \* the last direct call of the path predicates and its results
  req,          \* the last request served
  resp,         \* what the client got for it, and what the handlers did
  disk,         \* the CA certificate, server certificate and server key files
  gen,          \* the last call of Generate and what it returned
  port,         \* who holds the address of Options.Addr
  run,          \* where Run is, what it returned, the checks it has made
  srv,          \* the http.Server
  task          \* the goroutine of setupGracefulShutdown

certVars == <<disk, gen>>

runVars == <<port, run, srv, task>>

vars == <<cwd, fs, root, paths, authUser, authPass, quiet, maxBodyBytes,
          guard, req, resp, disk, gen, port, run, srv, task>>

(***************************************************************************)
(* Command line: share root and allow-list.                                *)
(***************************************************************************)
\* filepath.Abs(p) in working directory wd
Abs(wd, p) == IF IsAbs(p) THEN Clean(p) ELSE Join(wd, p)

\* the root is -dir made absolute when -dir is given, and the working
\* directory otherwise, with or without positional arguments
determineRootDir(wd, dir, nonFlagArgs) ==
  IF dir # <<>> THEN Abs(wd, dir)
  ELSE IF Len(nonFlagArgs) > 0 THEN Abs(wd, Dot)
  ELSE Abs(wd, Dot)

\* Options.Root and Options.Paths as buildServerConfig sets them
buildServerConfig(wd, dir, nonFlagArgs) ==
  [Root |-> determineRootDir(wd, dir, nonFlagArgs), Paths |-> nonFlagArgs]

(***************************************************************************)
(* PathGuard.                                                              *)
(***************************************************************************)
\* a mutation: containment decided by a string prefix of the full path
isPathSafePrefix(requestPath, rootDir) ==
  LET fullPath == Join(rootDir, Clean(requestPath))
      ev == EvalSymlinks(fs, fullPath)
  IN /\ HasPrefix(fullPath, rootDir)
     /\ \/ ev.err # "nil"
        \/ HasPrefix(ev.path, rootDir)

\* a mutation: the symlink check left out
isPathSafeTextual(requestPath, rootDir) ==
  LET fullPath == Join(rootDir, Clean(requestPath))
      rel == Rel(rootDir, fullPath)
  IN rel.ok /\ ~HasPrefix(rel.path, DotDot)

isPathSafe(requestPath, rootDir) ==
  LET cleanRequestPath == Clean(requestPath)
      fullPath == Join(rootDir, cleanRequestPath)
      rel == Rel(rootDir, fullPath)
      ev == EvalSymlinks(fs, fullPath)
      resolvedPath == IF ev.err # "nil" /\ ~IsNotExist(ev.err)
                        THEN fullPath ELSE ev.path
      relResolved == Rel(rootDir, resolvedPath)
  IN IF ~rel.ok THEN FALSE
     ELSE IF HasPrefix(rel.path, DotDot) THEN FALSE
     ELSE IF ~relResolved.ok THEN FALSE
     ELSE ~HasPrefix(relResolved.path, DotDot)

\* the root-relative form of an allow-list entry: made absolute in the
\* working directory, then made relative to the root
EntryRel(allowedPath, rootDir) == Rel(rootDir, Abs(cwd, allowedPath))

\* a mutation: the prefix test without the path separator
isPathAllowedNoSep(requestPath, allowedPaths, rootDir) ==
  LET cleanRequestPath == Clean(requestPath)
      reqPath == TrimPrefix(cleanRequestPath, <<Sep>>)
  IN \/ Len(allowedPaths) = 0
     \/ cleanRequestPath = <<Sep>> \/ cleanRequestPath = Dot
     \/ \E i \in 1..Len(allowedPaths) :
          LET r == EntryRel(allowedPaths[i], rootDir)
          IN r.ok /\ (reqPath = r.path \/ HasPrefix(reqPath, r.path))

\* a mutation: the request path compared without cleaning it
isPathAllowedRaw(requestPath, allowedPaths, rootDir) ==
  LET cleanRequestPath == Clean(requestPath)
      reqPath == TrimPrefix(requestPath, <<Sep>>)
  IN \/ Len(allowedPaths) = 0
     \/ cleanRequestPath = <<Sep>> \/ cleanRequestPath = Dot
     \/ \E i \in 1..Len(allowedPaths) :
          LET r == EntryRel(allowedPaths[i], rootDir)
          IN r.ok /\ (reqPath = r.path \/ HasPrefix(reqPath, r.path \o <<Sep>>))

\* a mutation: an entry that is the root itself matches every path
isPathAllowedRootEntry(requestPath, allowedPaths, rootDir) ==
  LET cleanRequestPath == Clean(requestPath)
      reqPath == TrimPrefix(cleanRequestPath, <<Sep>>)
  IN IF Len(allowedPaths) = 0 THEN TRUE
     ELSE IF cleanRequestPath = <<Sep>> \/ cleanRequestPath = Dot THEN TRUE
     ELSE \E i \in 1..Len(allowedPaths) :
            LET r == EntryRel(allowedPaths[i], rootDir)
            IN r.ok /\ (r.path = Dot \/ reqPath = r.path
                        \/ HasPrefix(reqPath, r.path \o <<Sep>>))

isPathAllowed(requestPath, allowedPaths, rootDir) ==
  LET cleanRequestPath == Clean(requestPath)
      reqPath == TrimPrefix(cleanRequestPath, <<Sep>>)
  IN IF Len(allowedPaths) = 0 THEN TRUE
     ELSE IF cleanRequestPath = <<Sep>> \/ cleanRequestPath = Dot THEN TRUE
     ELSE \E i \in 1..Len(allowedPaths) :
            LET r == EntryRel(allowedPaths[i], rootDir)
            IN r.ok /\ (reqPath = r.path \/ HasPrefix(reqPath, r.path \o <<Sep>>))

\* a mutation: only the last segment is looked at
isHiddenFileRequestBase(path) ==
  LET segments == Split(Clean(path))
      segment == segments[Len(segments)]
  IN HasPrefix(segment, Dot) /\ segment # Dot /\ segment # DotDot

isHiddenFileRequest(path) ==
  LET cleanPath == Clean(path)
      segments == Split(cleanPath)
  IN \E i \in 1..Len(segments) :
       LET segment == segments[i]
       IN HasPrefix(segment, Dot) /\ segment # Dot /\ segment # DotDot

isRequestAllowed(path, rootDir, allowedPaths, hasSpecificPaths) ==
  IF ~isPathSafe(path, rootDir) THEN FALSE
  ELSE IF hasSpecificPaths /\ ~isPathAllowed(path, allowedPaths, rootDir) THEN FALSE
  ELSE IF isHiddenFileRequest(path) THEN FALSE
  ELSE TRUE

(***************************************************************************)
(* Requests and the response writer.                                       *)
(***************************************************************************)
NoAuth == [ok |-> FALSE, user |-> "", pass |-> ""]

\* the Authorization header of a request, as r.BasicAuth() reads it
Credentials ==
  {NoAuth, [ok |-> TRUE, user |-> "u", pass |-> "p"],
           [ok |-> TRUE, user |-> "u", pass |-> "q"]}

\* Content-Length of a request: none, small, and above the default limit
ContentLengths == {0, 3, 10 * 2^20 + 1}

\* r.URL.Path of a request: net/http hands the handler rooted paths
UrlPaths == {p \in StringsUpTo(MaxUrlLen) : IsAbs(p)}

Requests ==
  [method : {"GET"}, path : UrlPaths, contentLength : ContentLengths,
   auth : Credentials, acceptGzip : BOOLEAN]

NoRequest == [method |-> "", path |-> <<>>, contentLength |-> 0,
              auth |-> NoAuth, acceptGzip |-> FALSE]

\* the http.ResponseWriter of one exchange: status 0 is "nothing written";
\* gzip says that writes go through a gzipResponseWriter; stages, fsInvoked
\* and log record which handlers ran, in order, and what they printed
NewResponseWriter ==
  [status |-> 0, headers |-> {}, body |-> "", gzip |-> FALSE,
   stages |-> <<>>, fsInvoked |-> FALSE, log |-> <<>>]

\* gzipResponseWriter.WriteHeader, and the plain WriteHeader below it
WriteHeader(w, statusCode) ==
  IF w.gzip
    THEN [w EXCEPT !.headers = (@ \ {"Content-Length"}) \cup {"Content-Encoding"},
                   !.status = statusCode]
  ELSE [w EXCEPT !.status = statusCode]

\* http.Error(w, msg, code)
HttpError(w, msg, code) ==
  LET h == [w EXCEPT !.headers = (@ \ {"Content-Length"})
                         \cup {"Content-Type", "X-Content-Type-Options"}]
  IN [WriteHeader(h, code) EXCEPT !.body = msg]

SecurityHeaders ==
  {"X-Content-Type-Options", "X-Frame-Options", "X-XSS-Protection",
   "Strict-Transport-Security", "Content-Security-Policy",
   "Referrer-Policy", "Permissions-Policy"}

secureHeaders(w) == [w EXCEPT !.headers = @ \cup SecurityHeaders]

\* the access-log line, unless quiet
logRequest(w, r, statusCode) ==
  IF ~quiet
    THEN [w EXCEPT !.log = Append(@, [method |-> r.method, path |-> r.path,
                                      status |-> statusCode])]
  ELSE w

\* http.FileServer(http.Dir(root)).ServeHTTP: the cleaned URL path is opened
\* below the root (the open follows symlinks); a failed open is 404, a
\* directory without or a file with a trailing slash is redirected, anything
\* else is served
FileServer(w, r) ==
  LET name == Clean(r.path)
      ev == EvalSymlinks(fs, Join(root, name))
      isDir == fs[ev.path].kind = "dir"
      slash == r.path[Len(r.path)] = Sep
      w1 == [w EXCEPT !.fsInvoked = TRUE]
  IN IF ev.err # "nil" THEN HttpError(w1, "404 page not found", 404)
     ELSE IF isDir # slash
       THEN [WriteHeader([w1 EXCEPT !.headers = @ \cup {"Location"}], 301)
               EXCEPT !.body = ""]
     ELSE IF isDir
       THEN [WriteHeader([w1 EXCEPT !.headers =
                            @ \cup {"Content-Type", "Last-Modified"}], 200)
               EXCEPT !.body = "listing"]
     ELSE [WriteHeader([w1 EXCEPT !.headers =
                          @ \cup {"Content-Type", "Content-Length",
                                  "Last-Modified", "Accept-Ranges"}], 200)
             EXCEPT !.body = "content"]

(***************************************************************************)
(* The handler and the middleware.                                         *)
(***************************************************************************)
\* a mutation: the denied request answered 404 when it is a hidden file
handleRequestNotFound(w, r) ==
  LET lrw == secureHeaders([w EXCEPT !.stages = Append(@, "handler")])
  IN IF ~isRequestAllowed(r.path, root, paths, Len(paths) > 0)
       THEN LET code == IF isHiddenFileRequest(r.path) THEN 404 ELSE 403
                e == HttpError(lrw, "Forbidden", code)
            IN logRequest(e, r, e.status)
     ELSE LET f == FileServer(lrw, r)
          IN logRequest(f, r, f.status)

\* handleRequest: security headers, the PathGuard decision, then either the
\* uniform 403 or the file responder, and the access-log line
handleRequest(w, r) ==
  LET lrw == secureHeaders([w EXCEPT !.stages = Append(@, "handler")])
  IN IF ~isRequestAllowed(r.path, root, paths, Len(paths) > 0)
       THEN LET e == HttpError(lrw, "Forbidden", 403)
            IN logRequest(e, r, e.status)
     ELSE LET f == FileServer(lrw, r)
          IN logRequest(f, r, f.status)

\* An http.Handler is the list of the middleware wrapped around the file
\* handler, outermost first: wrapping a handler puts a middleware in front
\* of the list, and the empty list is the handler NewHandler returns.
RECURSIVE Serve(_, _, _)

isRequestBodySizeAcceptable(r, maxSize) == r.contentLength <= maxSize

sendTooLargeResponse(w) == HttpError(w, "Request body too large", 413)

\* the handler LimitRequestBodySize(maxSize)(next) returns
LimitRequestBodySize(maxSize, next, w, r) ==
  LET w1 == [w EXCEPT !.stages = Append(@, "limit")]
  IN IF ~isRequestBodySizeAcceptable(r, maxSize) THEN sendTooLargeResponse(w1)
     ELSE Serve(next, w1, r)

shouldSkipAuth(username, password) == username = "" /\ password = ""

\* a mutation: only the user name is compared
isCredentialsValidUserOnly(user, pass, username, password) ==
  user = username

\* subtle.ConstantTimeCompare of both pairs
isCredentialsValid(user, pass, username, password) ==
  user = username /\ pass = password

sendUnauthorizedResponse(w) ==
  HttpError([w EXCEPT !.headers = @ \cup {"WWW-Authenticate"}],
            "Unauthorized", 401)

\* the handler BasicAuthMiddleware(username, password, realm)(next) returns
BasicAuthMiddleware(username, password, next, w, r) ==
  LET w1 == [w EXCEPT !.stages = Append(@, "auth")]
  IN IF shouldSkipAuth(username, password) THEN Serve(next, w1, r)
     ELSE IF ~r.auth.ok
             \/ ~isCredentialsValid(r.auth.user, r.auth.pass, username, password)
       THEN sendUnauthorizedResponse(w1)
     ELSE Serve(next, w1, r)

supportsGzip(r) == r.acceptGzip

\* the handler GzipMiddleware(next) returns
GzipMiddleware(next, w, r) ==
  LET w1 == [w EXCEPT !.stages = Append(@, "gzip")]
  IN IF ~supportsGzip(r) THEN Serve(next, w1, r)
     ELSE Serve(next, [w1 EXCEPT !.gzip = TRUE], r)

\* handler.ServeHTTP(w, r)
Serve(handler, w, r) ==
  IF handler = <<>> THEN handleRequest(w, r)
  ELSE LET m == Head(handler)
           next == Tail(handler)
       IN CASE m.kind = "limit" -> LimitRequestBodySize(m.maxSize, next, w, r)
            [] m.kind = "auth" ->
                 BasicAuthMiddleware(m.username, m.password, next, w, r)
            [] m.kind = "gzip" -> GzipMiddleware(next, w, r)

Limit(maxSize) ==
  [kind |-> "limit", maxSize |-> maxSize, username |-> "", password |-> ""]
BasicAuth(username, password) ==
  [kind |-> "auth", maxSize |-> 0, username |-> username, password |-> password]
Gzip == [kind |-> "gzip", maxSize |-> 0, username |-> "", password |-> ""]

DefaultMaxBodyBytes == 10 * 2^20

\* applyMiddleware: the limiter is wrapped around the handler first, the
\* authentication gate (when credentials are configured) around the limiter,
\* and the gzip middleware around both
applyMiddleware(handler) ==
  LET maxSize == IF maxBodyBytes <= 0 THEN DefaultMaxBodyBytes ELSE maxBodyBytes
      limited == <<Limit(maxSize)>> \o handler
      authed == IF authUser # "" \/ authPass # ""
                  THEN <<BasicAuth(authUser, authPass)>> \o limited
                ELSE limited
  IN <<Gzip>> \o authed

\* NewHandler(root, quiet, paths)
NewHandler == <<>>

(***************************************************************************)
(* Certificates: internal/tls/policy.go, Generate.                         *)
(***************************************************************************)
\* number of Generate calls in one behaviour
MaxGenerate == 2

\* the private keys of the n-th generation; rsa.GenerateKey returns a fresh
\* key pair at every call, and a key pair is named by its private key
CaKey(n) == [role |-> "ca", n |-> n]
ServerKey(n) == [role |-> "server", n |-> n]

\* what can go wrong in one call: nothing, os.MkdirAll, rsa.GenerateKey,
\* x509.CreateCertificate, and for each of the three files os.OpenFile,
\* pem.Encode and File.Close
NoFault == [step |-> "none", how |-> ""]
Faults ==
  {NoFault, [step |-> "mkdir", how |-> ""], [step |-> "keygen", how |-> ""],
   [step |-> "sign", how |-> ""]}
    \cup [step : {"ca", "cert", "key"}, how : {"open", "write", "close"}]

\* the fault that hits the write of file name, "" when none does
HowAt(fault, name) == IF fault.step = name THEN fault.how ELSE ""

createCACertificateTemplate ==
  [subject |-> "Local HTTPS CA", isCA |-> TRUE]

createServerCertificateTemplate ==
  [subject |-> "localhost", isCA |-> FALSE]

\* x509.CreateCertificate(rand, template, parent, pub, priv): the
\* certificate names the template's subject, takes its issuer from the
\* parent's subject, carries pub and is signed with priv
createCertificate(template, parent, pub, priv) ==
  [kind |-> "cert", subject |-> template.subject, issuer |-> parent.subject,
   isCA |-> template.isCA, pub |-> pub, signer |-> priv]

generateCACertificate(caKey) ==
  createCertificate(createCACertificateTemplate, createCACertificateTemplate,
                    caKey, caKey)

\* a mutation: the leaf signed with its own key
generateServerCertificateSelfSigned(caKey, serverKey) ==
  createCertificate(createServerCertificateTemplate,
                    createCACertificateTemplate, serverKey, serverKey)

generateServerCertificate(caKey, serverKey) ==
  createCertificate(createServerCertificateTemplate,
                    createCACertificateTemplate, serverKey, caKey)

\* x509.MarshalPKCS1PrivateKey
MarshalPKCS1PrivateKey(key) ==
  [kind |-> "key", subject |-> "", issuer |-> "", isCA |-> FALSE,
   pub |-> key, signer |-> key]

\* the content of a file that has no PEM block in it
NoData(kind) ==
  [kind |-> kind, subject |-> "", issuer |-> "", isCA |-> FALSE,
   pub |-> CaKey(0), signer |-> CaKey(0)]

\* createCertificateData: [err, caKey, serverKey, caCertDER, serverCertDER]
createCertificateData(n, fault) ==
  LET caKey == CaKey(n)
      serverKey == ServerKey(n)
  IN [err |-> IF fault.step \in {"keygen", "sign"} THEN fault.step ELSE "nil",
      caKey |-> caKey, serverKey |-> serverKey,
      caCertDER |-> generateCACertificate(caKey),
      serverCertDER |-> generateServerCertificate(caKey, serverKey)]

(***************************************************************************)
(* The three files.                                                        *)
(***************************************************************************)
Absent == [exists |-> FALSE, data |-> NoData("none"), mode |-> "none"]

\* writePem(path, typ, data, mode): [file, err].  os.OpenFile with
\* O_CREATE|O_WRONLY|O_TRUNC creates the file with the mode given or
\* truncates the file that exists, whose mode it keeps; a failed pem.Encode
\* leaves the truncated file, a failed Close the written one
writePem(file, data, mode, how) ==
  LET opened == [exists |-> TRUE, data |-> NoData("truncated"),
                 mode |-> IF file.exists THEN file.mode ELSE mode]
      written == [opened EXCEPT !.data = data]
  IN IF how = "open" THEN [file |-> file, err |-> "open"]
     ELSE IF how = "write" THEN [file |-> opened, err |-> "write"]
     ELSE IF how = "close" THEN [file |-> written, err |-> "close"]
     ELSE [file |-> written, err |-> "nil"]

\* a mutation: the error of the key file's write dropped
saveCertificatesKeyErrorDropped(data, d, fault) ==
  LET w1 == writePem(d.ca, data.caCertDER, "0644", HowAt(fault, "ca"))
      d1 == [d EXCEPT !.ca = w1.file]
      w2 == writePem(d.cert, data.serverCertDER, "0644", HowAt(fault, "cert"))
      d2 == [d1 EXCEPT !.cert = w2.file]
      w3 == writePem(d.key, MarshalPKCS1PrivateKey(data.serverKey), "0600",
                     HowAt(fault, "key"))
      d3 == [d2 EXCEPT !.key = w3.file]
  IN IF w1.err # "nil" THEN [disk |-> d1, err |-> w1.err]
     ELSE IF w2.err # "nil" THEN [disk |-> d2, err |-> w2.err]
     ELSE [disk |-> d3, err |-> "nil"]

\* saveCertificates: the CA certificate, the server certificate, the server
\* key, in this order, stopping at the first error: [disk, err]
saveCertificates(data, d, fault) ==
  LET w1 == writePem(d.ca, data.caCertDER, "0644", HowAt(fault, "ca"))
      d1 == [d EXCEPT !.ca = w1.file]
      w2 == writePem(d.cert, data.serverCertDER, "0644", HowAt(fault, "cert"))
      d2 == [d1 EXCEPT !.cert = w2.file]
      w3 == writePem(d.key, MarshalPKCS1PrivateKey(data.serverKey), "0600",
                     HowAt(fault, "key"))
      d3 == [d2 EXCEPT !.key = w3.file]
  IN IF w1.err # "nil" THEN [disk |-> d1, err |-> w1.err]
     ELSE IF w2.err # "nil" THEN [disk |-> d2, err |-> w2.err]
     ELSE IF w3.err # "nil" THEN [disk |-> d3, err |-> w3.err]
     ELSE [disk |-> d3, err |-> "nil"]

\* os.Stat(path) succeeds
CheckCertificateExists(file) == file.exists

\* a mutation: the test of force inverted
shouldSkipGenerationForced(force, d) ==
  force /\ CheckCertificateExists(d.cert) /\ CheckCertificateExists(d.ca)

shouldSkipGeneration(force, d) ==
  ~force /\ CheckCertificateExists(d.cert) /\ CheckCertificateExists(d.ca)

\* os.MkdirAll(dir, 0755)
ensureCertDirectory(fault) == IF fault.step = "mkdir" THEN "mkdir" ELSE "nil"

\* generateAndSaveCertificates: [disk, err, done]; done says that the
\* completion message was printed
generateAndSaveCertificates(d, n, fault) ==
  LET data == createCertificateData(n, fault)
      saved == saveCertificates(data, d, fault)
  IN IF ensureCertDirectory(fault) # "nil"
       THEN [disk |-> d, err |-> ensureCertDirectory(fault), done |-> FALSE]
     ELSE IF data.err # "nil" THEN [disk |-> d, err |-> data.err, done |-> FALSE]
     ELSE IF saved.err # "nil"
       THEN [disk |-> saved.disk, err |-> saved.err, done |-> FALSE]
     ELSE [disk |-> saved.disk, err |-> "nil", done |-> TRUE]

\* Generate(force), the n-th call: [disk, err, done, skipped]
Generate(force, d, n, fault) ==
  IF shouldSkipGeneration(force, d)
    THEN [disk |-> d, err |-> "nil", done |-> FALSE, skipped |-> TRUE]
  ELSE LET g == generateAndSaveCertificates(d, n, fault)
       IN [disk |-> g.disk, err |-> g.err, done |-> g.done, skipped |-> FALSE]

\* files of an earlier installation (generation 0)
OldCa == [exists |-> TRUE, data |-> generateCACertificate(CaKey(0)),
          mode |-> "0644"]
OldCert == [exists |-> TRUE,
            data |-> generateServerCertificate(CaKey(0), ServerKey(0)),
            mode |-> "0644"]
OldKey(mode) == [exists |-> TRUE, data |-> MarshalPKCS1PrivateKey(ServerKey(0)),
                 mode |-> mode]

\* what may be at the three paths before the first call: nothing, or files of
\* an earlier installation, some of them deleted, the key file with the mode
\* it was created or copied with
Disks ==
  [ca : {Absent, OldCa}, cert : {Absent, OldCert},
   key : {Absent, OldKey("0600"), OldKey("0644")}]

InstalledDisk == [ca |-> OldCa, cert |-> OldCert, key |-> OldKey("0600")]

NoGenerate ==
  [called |-> FALSE, count |-> 0, force |-> FALSE, fault |-> NoFault,
   err |-> "nil", done |-> FALSE, skipped |-> FALSE, before |-> InstalledDisk]

(***************************************************************************)
(* Start and stop of the server: Run, PreflightCheck, LoadTLSConfig,       *)
(* setupGracefulShutdown.                                                  *)
(***************************************************************************)
\* connections open at one time
MaxConns == 2

\* one entry of run.trace: a check made against the environment, and whether
\* it passed
Check(name, ok) == [check |-> name, ok |-> ok]

\* a mutation: the key file not looked at
checkCertificateFilesCertOnly(d) ==
  IF ~d.cert.exists THEN "cert missing" ELSE "nil"

\* checkCertificateFiles: os.Stat of the certificate, then of the key
checkCertificateFiles(d) ==
  IF ~d.cert.exists THEN "cert missing"
  ELSE IF ~d.key.exists THEN "key missing"
  ELSE "nil"

\* checkPort: net.Listen on the address, closed at once
checkPort(p) == IF p = "free" THEN "nil" ELSE "port"

PreflightCheck(d, p) ==
  IF checkCertificateFiles(d) # "nil" THEN checkCertificateFiles(d)
  ELSE checkPort(p)

\* the checks PreflightCheck makes, in the order it makes them
PreflightTrace(d, p) ==
  IF ~d.cert.exists THEN << Check("stat cert", FALSE) >>
  ELSE IF checkCertificateFiles(d) # "nil"
    THEN << Check("stat cert", TRUE), Check("stat key", FALSE) >>
  ELSE << Check("stat cert", TRUE), Check("stat key", TRUE),
          Check("probe", checkPort(p) = "nil") >>

\* tls.LoadX509KeyPair: both files read and parsed, and the private key must
\* be the key of the certificate
loadCertificate(d) ==
  IF ~d.cert.exists \/ ~d.key.exists THEN "tls load"
  ELSE IF d.cert.data.kind # "cert" \/ d.key.data.kind # "key" THEN "tls load"
  ELSE IF d.key.data.pub # d.cert.data.pub THEN "tls load"
  ELSE "nil"

\* crypto/tls: the cipher suites of TLS 1.2 by key exchange and cipher
Suite(kx, auth, cipher) == [kx |-> kx, auth |-> auth, cipher |-> cipher]

\* a mutation: a CBC suite in the list
getSecureCipherSuitesWithCBC ==
  << Suite("ECDHE", "ECDSA", "AES_256_GCM"),
     Suite("ECDHE", "RSA", "AES_256_GCM"),
     Suite("ECDHE", "ECDSA", "CHACHA20_POLY1305"),
     Suite("ECDHE", "RSA", "CHACHA20_POLY1305"),
     Suite("ECDHE", "ECDSA", "AES_128_GCM"),
     Suite("ECDHE", "RSA", "AES_128_CBC") >>

getSecureCipherSuites ==
  << Suite("ECDHE", "ECDSA", "AES_256_GCM"),
     Suite("ECDHE", "RSA", "AES_256_GCM"),
     Suite("ECDHE", "ECDSA", "CHACHA20_POLY1305"),
     Suite("ECDHE", "RSA", "CHACHA20_POLY1305"),
     Suite("ECDHE", "ECDSA", "AES_128_GCM"),
     Suite("ECDHE", "RSA", "AES_128_GCM") >>

getSecureCurvePreferences == << "X25519", "CurveP256" >>

\* the fields left at their zero value are written out: ClientAuth is
\* tls.NoClientCert
createBaseTLSConfig(cert) ==
  [Certificates |-> << cert >>, MinVersion |-> "VersionTLS12",
   PreferServerCipherSuites |-> TRUE, CipherSuites |-> <<>>,
   CurvePreferences |-> <<>>, ClientAuth |-> "NoClientCert"]

DefaultConfig(cert) ==
  [createBaseTLSConfig(cert) EXCEPT !.CipherSuites = getSecureCipherSuites,
                                    !.CurvePreferences = getSecureCurvePreferences]

createTLSConfig(cert) == DefaultConfig(cert)

\* LoadTLSConfig: [err, config]
LoadTLSConfig(d) ==
  [err |-> loadCertificate(d),
   config |-> createTLSConfig([cert |-> d.cert.data, key |-> d.key.data])]

\* signals delivered to the process in one run
MaxSignals == 2

NoConfig ==
  [Certificates |-> <<>>, MinVersion |-> "", PreferServerCipherSuites |-> FALSE,
   CipherSuites |-> <<>>, CurvePreferences |-> <<>>,
   ClientAuth |-> "NoClientCert"]

\* run: where Run is (pc), what it returned, the checks it has made
NoRun == [pc |-> "Idle", err |-> "nil", trace |-> <<>>, tlsConfig |-> NoConfig]

\* srv: the listener, the requests in flight (conns), and of the requests
\* in flight when Shutdown was called (atShutdown) those that completed
\* (drained) and those srv.Close() cut (aborted)
NoServer ==
  [listening |-> FALSE, inShutdown |-> FALSE, everListened |-> FALSE,
   TLSConfig |-> NoConfig, conns |-> 0, accepted |-> FALSE,
   atShutdown |-> 0, drained |-> 0, aborted |-> 0]

\* task: where the goroutine is (pc), the buffer of sigChan, the signals
\* delivered to the process and where Run was at the first of them, the
\* deadline of ctx, the calls of srv.Shutdown and of close(idleConnsClosed)
NoTask ==
  [pc |-> "none", sigChan |-> 0, signals |-> 0, firstAt |-> "",
   expired |-> FALSE, forced |-> FALSE, idleConnsClosed |-> FALSE,
   shutdowns |-> 0, closes |-> 0]

NotRunning == port = "free" /\ run = NoRun /\ srv = NoServer /\ task = NoTask

\* Run returns err
Return(err, checks) ==
  [run EXCEPT !.pc = "Returned", !.err = err, !.trace = @ \o checks]

\* the process is running
Alive == run.pc \notin {"Returned", "Killed"}

\* a mutation: the signals handed to the goroutine only until it has taken one
RegisteredUntilReceived(t) == t.pc = "waiting"

\* signal.Notify has been called: from then on the signals are sent to
\* sigChan, not handled by the runtime
Registered(t) == t.pc \notin {"none", "started"}

(***************************************************************************)
(* Specifications.                                                         *)
(***************************************************************************)
Cwds == {<<"/", "d">>, <<"/", "x">>}
Dirs == {<<>>, <<"/", "d">>}

\* positional arguments of the command line
ArgLists ==
  {<<>>, << <<"d">> >>, << <<"/", "x">> >>, << <<".">> >>,
   << <<"/", "d", "/", "d">> >>, << <<"/", "x">>, <<"d">> >>}

NoCall == [called |-> FALSE, path |-> <<>>, safe |-> FALSE, allowed |-> FALSE,
           hidden |-> FALSE, result |-> FALSE]

InitOptions(wds, dirs, args) ==
  /\ cwd \in wds
  /\ fs \in FileSystems
  /\ \E dir \in dirs, a \in args :
       LET opt == buildServerConfig(cwd, dir, a)
       IN root = opt.Root /\ paths = opt.Paths
  /\ resp = NewResponseWriter

\* the server after startup, with a request on an accepted connection
Init ==
  /\ InitOptions(Cwds, Dirs, {<<>>, << <<"d">> >>})
  /\ disk = InstalledDisk /\ gen = NoGenerate
  /\ NotRunning
  /\ guard = NoCall
  /\ req \in Requests
  /\ \E c \in {<<"", "">>, <<"u", "p">>} : authUser = c[1] /\ authPass = c[2]
  /\ quiet \in BOOLEAN
  /\ maxBodyBytes \in {0, 2}

\* the server handles the request: the whole chain runs in the goroutine of
\* the connection
ServeHTTP ==
  /\ resp = NewResponseWriter
  /\ resp' = Serve(applyMiddleware(NewHandler), NewResponseWriter, req)
  /\ UNCHANGED <<cwd, fs, root, paths, authUser, authPass, quiet,
                 maxBodyBytes, guard, req, certVars, runVars>>

Next == ServeHTTP

Spec == Init /\ [][Next]_vars

\* the path predicates called directly, on any string
InitGuard ==
  /\ InitOptions(Cwds, Dirs, ArgLists)
  /\ \E p \in StringsUpTo(MaxLen) : guard = [NoCall EXCEPT !.path = p]
  /\ req = NoRequest
  /\ disk = InstalledDisk /\ gen = NoGenerate
  /\ NotRunning
  /\ authUser = "" /\ authPass = ""
  /\ quiet = FALSE
  /\ maxBodyBytes = 0

CallGuards ==
  LET p == guard.path IN
    /\ ~guard.called
    /\ guard' = [called |-> TRUE, path |-> p,
                 safe |-> isPathSafe(p, root),
                 allowed |-> isPathAllowed(p, paths, root),
                 hidden |-> isHiddenFileRequest(p),
                 result |-> isRequestAllowed(p, root, paths, Len(paths) > 0)]
    /\ UNCHANGED <<cwd, fs, root, paths, authUser, authPass, quiet,
                   maxBodyBytes, req, resp, certVars, runVars>>

NextGuard == CallGuards

SpecGuard == InitGuard /\ [][NextGuard]_vars

\* `hserve cert`: Generate called on the files found at the three paths
InitCert ==
  /\ InitOptions({<<"/", "d">>}, {<<>>}, {<<>>})
  /\ fs = FsPlain
  /\ guard = NoCall /\ req = NoRequest
  /\ authUser = "" /\ authPass = ""
  /\ quiet = FALSE
  /\ maxBodyBytes = 0
  /\ disk \in Disks
  /\ gen = [NoGenerate EXCEPT !.before = disk]
  /\ NotRunning

\* one call of Generate(force); fault is what fails in it, if it gets there
GenerateCall ==
  \E force \in BOOLEAN, fault \in Faults :
    LET n == gen.count + 1
        g == Generate(force, disk, n, fault)
    IN /\ gen.count < MaxGenerate
       /\ disk' = g.disk
       /\ gen' = [called |-> TRUE, count |-> n, force |-> force,
                  fault |-> IF g.skipped THEN NoFault ELSE fault,
                  err |-> g.err, done |-> g.done, skipped |-> g.skipped,
                  before |-> disk]
       /\ UNCHANGED <<cwd, fs, root, paths, authUser, authPass, quiet,
                      maxBodyBytes, guard, req, resp, runVars>>

NextCert == GenerateCall

SpecCert == InitCert /\ [][NextCert]_vars

\* `hserve`: Run called on the files found at the certificate paths, the
\* address free or held by another process
RunDisks ==
  Disks \cup {Generate(TRUE, InstalledDisk, 1, [step |-> "key", how |-> h]).disk :
                h \in {"open", "write"}}

InitRun ==
  /\ InitOptions({<<"/", "d">>}, {<<>>}, {<<>>})
  /\ fs = FsPlain
  /\ guard = NoCall /\ req = NoRequest
  /\ authUser = "" /\ authPass = ""
  /\ quiet = FALSE
  /\ maxBodyBytes = 0
  /\ disk \in RunDisks
  /\ gen = NoGenerate
  /\ port \in {"free", "taken"}
  /\ run = NoRun /\ srv = NoServer /\ task = NoTask

RunUnchanged ==
  UNCHANGED <<cwd, fs, root, paths, authUser, authPass, quiet, maxBodyBytes,
              guard, req, resp, certVars>>

\* Run: PreflightCheck
RunPreflightCheck ==
  /\ run.pc = "Idle"
  /\ run' = IF PreflightCheck(disk, port) # "nil"
              THEN Return(PreflightCheck(disk, port), PreflightTrace(disk, port))
              ELSE [run EXCEPT !.pc = "PreflightChecked",
                               !.trace = @ \o PreflightTrace(disk, port)]
  /\ UNCHANGED <<port, srv, task>>
  /\ RunUnchanged

\* Run: LoadTLSConfig
RunLoadTLSConfig ==
  /\ run.pc = "PreflightChecked"
  /\ run' = IF LoadTLSConfig(disk).err # "nil"
              THEN Return(LoadTLSConfig(disk).err,
                          << Check("load pair", FALSE) >>)
              ELSE [run EXCEPT !.pc = "TLSLoaded",
                               !.tlsConfig = LoadTLSConfig(disk).config,
                               !.trace = @ \o << Check("load pair", TRUE) >>]
  /\ UNCHANGED <<port, srv, task>>
  /\ RunUnchanged

\* Run: NewHandler, applyMiddleware, createHTTPServer, setupGracefulShutdown
\* (the goroutine is started), printServerInfo
setupGracefulShutdown ==
  /\ run.pc = "TLSLoaded"
  /\ run' = [run EXCEPT !.pc = "Ready"]
  /\ srv' = [srv EXCEPT !.TLSConfig = run.tlsConfig]
  /\ task' = [task EXCEPT !.pc = "started"]
  /\ UNCHANGED port
  /\ RunUnchanged

\* a mutation: the server listens although Shutdown has been called
ListenAndServeTLSIgnoringShutdown ==
  /\ run.pc = "Ready"
  /\ IF port # "free"
       THEN run' = Return("listen", << Check("listen", FALSE) >>)
            /\ UNCHANGED <<port, srv>>
     ELSE /\ run' = [run EXCEPT !.pc = "Listening",
                                !.trace = @ \o << Check("listen", TRUE) >>]
          /\ srv' = [srv EXCEPT !.listening = TRUE, !.everListened = TRUE]
          /\ port' = "ours"
  /\ UNCHANGED task
  /\ RunUnchanged

\* Run: srv.ListenAndServeTLS.  A server already shut down returns
\* http.ErrServerClosed at once; a failed net.Listen is returned by Run
ListenAndServeTLS ==
  /\ run.pc = "Ready"
  /\ IF srv.inShutdown
       THEN run' = [run EXCEPT !.pc = "Draining"] /\ UNCHANGED <<port, srv>>
     ELSE IF port # "free"
       THEN run' = Return("listen", << Check("listen", FALSE) >>)
            /\ UNCHANGED <<port, srv>>
     ELSE /\ run' = [run EXCEPT !.pc = "Listening",
                                !.trace = @ \o << Check("listen", TRUE) >>]
          /\ srv' = [srv EXCEPT !.listening = TRUE, !.everListened = TRUE]
          /\ port' = "ours"
  /\ UNCHANGED task
  /\ RunUnchanged

\* another process binds the address before the server does
OtherProcessBinds ==
  /\ run.pc \in {"PreflightChecked", "TLSLoaded", "Ready"}
  /\ port = "free"
  /\ port' = "taken"
  /\ UNCHANGED <<run, srv, task>>
  /\ RunUnchanged

\* a request arrives on a new connection; a request in flight completes
Accept ==
  /\ Alive /\ srv.listening /\ srv.conns < MaxConns
  /\ srv' = [srv EXCEPT !.conns = @ + 1, !.accepted = TRUE]
  /\ UNCHANGED <<port, run, task>>
  /\ RunUnchanged

Finish ==
  /\ Alive /\ srv.conns > 0
  /\ srv' = [srv EXCEPT !.conns = @ - 1,
                        !.drained = IF srv.inShutdown THEN @ + 1 ELSE @]
  /\ UNCHANGED <<port, run, task>>
  /\ RunUnchanged

\* the goroutine: make(chan os.Signal, 1); signal.Notify(sigChan, ...)
Notify ==
  /\ Alive /\ task.pc = "started"
  /\ task' = [task EXCEPT !.pc = "waiting"]
  /\ UNCHANGED <<port, run, srv>>
  /\ RunUnchanged

\* an interrupt or termination signal is delivered to the process once the
\* goroutine has been started: before signal.Notify the runtime ends the
\* process; after it the signal goes to sigChan, whose buffer holds one, and
\* is dropped when the buffer is full
Signal ==
  /\ Alive /\ task.pc # "none" /\ task.signals < MaxSignals
  /\ task' = [task EXCEPT !.signals = @ + 1,
                          !.firstAt = IF @ = "" THEN run.pc ELSE @,
                          !.sigChan = IF Registered(task) THEN 1 ELSE @]
  /\ IF Registered(task)
       THEN UNCHANGED <<port, run, srv>>
       ELSE /\ run' = [run EXCEPT !.pc = "Killed"]
            /\ srv' = [srv EXCEPT !.listening = FALSE]
            /\ port' = IF port = "ours" THEN "free" ELSE port
  /\ RunUnchanged

\* the goroutine: <-sigChan
Receive ==
  /\ Alive /\ task.pc = "waiting" /\ task.sigChan = 1
  /\ task' = [task EXCEPT !.pc = "signalled", !.sigChan = 0]
  /\ UNCHANGED <<port, run, srv>>
  /\ RunUnchanged

\* a mutation: Shutdown closes the connections of the requests in flight
ShutdownBeginClosing ==
  /\ Alive /\ task.pc = "signalled"
  /\ task' = [task EXCEPT !.pc = "draining", !.shutdowns = @ + 1]
  /\ srv' = [srv EXCEPT !.inShutdown = TRUE, !.listening = FALSE,
                        !.atShutdown = srv.conns, !.aborted = srv.conns,
                        !.conns = 0]
  /\ port' = IF port = "ours" THEN "free" ELSE port
  /\ UNCHANGED run
  /\ RunUnchanged

\* the goroutine: context.WithTimeout(5s); srv.Shutdown(ctx) marks the
\* server as shutting down and closes the listener; the requests in flight
\* go on
ShutdownBegin ==
  /\ Alive /\ task.pc = "signalled"
  /\ task' = [task EXCEPT !.pc = "draining", !.shutdowns = @ + 1]
  /\ srv' = [srv EXCEPT !.inShutdown = TRUE, !.listening = FALSE,
                        !.atShutdown = srv.conns]
  /\ port' = IF port = "ours" THEN "free" ELSE port
  /\ UNCHANGED run
  /\ RunUnchanged

\* the 5 seconds of ctx pass while srv.Shutdown waits for a request
GraceExpires ==
  /\ Alive /\ task.pc = "draining" /\ srv.conns > 0 /\ ~task.expired
  /\ task' = [task EXCEPT !.expired = TRUE]
  /\ UNCHANGED <<port, run, srv>>
  /\ RunUnchanged

\* the goroutine: srv.Shutdown(ctx) returns nil when it finds no request in
\* flight, and then close(idleConnsClosed); it returns ctx.Err() when the
\* deadline has passed
ShutdownReturns ==
  /\ Alive /\ task.pc = "draining"
  /\ \/ /\ srv.conns = 0
        /\ task' = [task EXCEPT !.pc = "done", !.idleConnsClosed = TRUE,
                                !.closes = @ + 1]
     \/ /\ task.expired
        /\ task' = [task EXCEPT !.pc = "closing"]
  /\ UNCHANGED <<port, run, srv>>
  /\ RunUnchanged

\* the goroutine, after an error of Shutdown: srv.Close() closes the
\* connections; close(idleConnsClosed)
ForceClose ==
  /\ Alive /\ task.pc = "closing"
  /\ srv' = [srv EXCEPT !.aborted = srv.conns, !.conns = 0]
  /\ task' = [task EXCEPT !.pc = "done", !.forced = TRUE,
                          !.idleConnsClosed = TRUE, !.closes = @ + 1]
  /\ UNCHANGED <<port, run>>
  /\ RunUnchanged

\* Run: ListenAndServeTLS returns http.ErrServerClosed
ServeReturns ==
  /\ run.pc = "Listening" /\ srv.inShutdown
  /\ run' = [run EXCEPT !.pc = "Draining"]
  /\ UNCHANGED <<port, srv, task>>
  /\ RunUnchanged

\* a mutation: Run returns without the receive from idleConnsClosed
RunReturnsAtOnce ==
  /\ run.pc = "Draining"
  /\ run' = [run EXCEPT !.pc = "Returned"]
  /\ UNCHANGED <<port, srv, task>>
  /\ RunUnchanged

\* a mutation: Run returns the failure of the drain
RunReturnsDrainError ==
  /\ run.pc = "Draining" /\ task.idleConnsClosed
  /\ run' = [run EXCEPT !.pc = "Returned",
                        !.err = IF task.forced THEN "shutdown" ELSE "nil"]
  /\ UNCHANGED <<port, srv, task>>
  /\ RunUnchanged

\* Run: <-idleConnsClosed; return nil
RunReturns ==
  /\ run.pc = "Draining" /\ task.idleConnsClosed
  /\ run' = [run EXCEPT !.pc = "Returned"]
  /\ UNCHANGED <<port, srv, task>>
  /\ RunUnchanged

NextRun ==
  \/ RunPreflightCheck
  \/ RunLoadTLSConfig
  \/ setupGracefulShutdown
  \/ ListenAndServeTLS
  \/ OtherProcessBinds
  \/ Accept
  \/ Finish
  \/ Notify
  \/ Signal
  \/ Receive
  \/ ShutdownBegin
  \/ GraceExpires
  \/ ShutdownReturns
  \/ ForceClose
  \/ ServeReturns
  \/ RunReturns

SpecRun == InitRun /\ [][NextRun]_vars

\* the steps of Run and of the goroutine are taken when they can be; the
\* signals, the clients and the other processes are free
FairRun ==
  /\ WF_vars(RunPreflightCheck) /\ WF_vars(RunLoadTLSConfig)
  /\ WF_vars(setupGracefulShutdown) /\ WF_vars(ListenAndServeTLS)
  /\ WF_vars(Notify) /\ WF_vars(Receive) /\ WF_vars(ShutdownBegin)
  /\ WF_vars(GraceExpires) /\ WF_vars(ShutdownReturns) /\ WF_vars(ForceClose)
  /\ WF_vars(ServeReturns) /\ WF_vars(RunReturns)

SpecRunFair == SpecRun /\ FairRun

(***************************************************************************)
(* Properties.                                                             *)
(***************************************************************************)
\* the request has been handled
Handled == resp # NewResponseWriter

\* position of a stage in the order the handlers ran, 0 when it did not run
StageIndex(name) ==
  IF \E i \in 1..Len(resp.stages) : resp.stages[i] = name
    THEN CHOOSE i \in 1..Len(resp.stages) : resp.stages[i] = name
  ELSE 0

Oversized ==
  req.contentLength >
    (IF maxBodyBytes <= 0 THEN DefaultMaxBodyBytes ELSE maxBodyBytes)

\* C1: for every request the body-size check runs first, the authentication
\* check after it and before gzip wrapping, and an oversized request is
\* rejected by the limiter before any other stage has done work.
C1_LimiterAuthGzipOrder ==
  Handled =>
    /\ resp.stages[1] = "limit"
    /\ StageIndex("auth") > 0 /\ StageIndex("gzip") > 0
         => StageIndex("auth") < StageIndex("gzip")
    /\ Oversized => resp.stages = <<"limit">> /\ resp.status = 413

\* the headers the security-header set is said to consist of
ClaimedSecurityHeaders ==
  {"X-Content-Type-Options", "X-Frame-Options", "Strict-Transport-Security",
   "Content-Security-Policy", "Referrer-Policy", "Permissions-Policy"}

\* C2: every response carries the security-header set, whatever the outcome
\* of the request (served, 404, 403, 401, 413).
C2_SecurityHeadersOnEveryResponse ==
  Handled => ClaimedSecurityHeaders \subseteq resp.headers

\* list a is a prefix of list b
IsPrefixOf(a, b) == Len(a) <= Len(b) /\ SubSeq(b, 1, Len(a)) = a

\* the location the request names: the cleaned path below the root
TextualTarget(p) == Join(root, Clean(p))

\* an absolute path lies in the share root or below it
InsideRoot(q) == IsPrefixOf(Elements(root), Elements(q))

\* C3: a request path whose cleaned, root-joined form is, relative to the
\* root, a path that starts with the parent-directory element is judged
\* unsafe, and the request is not allowed.
C3_ParentEscapeIsUnsafe ==
  guard.called =>
    LET rel == Rel(root, TextualTarget(guard.path))
    IN (rel.ok /\ IsPrefixOf(<<DotDot>>, Elements(rel.path)))
         => ~guard.safe /\ ~guard.result

C3_Witness ==
  /\ guard.called
  /\ LET rel == Rel(root, TextualTarget(guard.path))
     IN rel.ok /\ IsPrefixOf(<<DotDot>>, Elements(rel.path))
  /\ ~InsideRoot(TextualTarget(guard.path))
  /\ EvalSymlinks(fs, TextualTarget(guard.path)).err = "nil"
  /\ ~guard.safe

\* C4: a request path whose symlink-resolved target lies outside the share
\* root is judged unsafe, also when the textual target is inside the root.
C4_SymlinkEscapeIsUnsafe ==
  guard.called =>
    LET ev == EvalSymlinks(fs, TextualTarget(guard.path))
    IN (ev.err = "nil" /\ ~InsideRoot(ev.path)) => ~guard.safe /\ ~guard.result

C4_Witness ==
  /\ guard.called
  /\ InsideRoot(TextualTarget(guard.path))
  /\ LET ev == EvalSymlinks(fs, TextualTarget(guard.path))
     IN ev.err = "nil" /\ ~InsideRoot(ev.path)
  /\ ~guard.safe

\* C5: a request for a path that does not exist and is textually inside the
\* share root is judged safe.
C5_MissingTargetIsSafe ==
  guard.called =>
    LET ev == EvalSymlinks(fs, TextualTarget(guard.path))
    IN (IsNotExist(ev.err) /\ InsideRoot(TextualTarget(guard.path)))
         => guard.safe

\* the one response of a denied request: it depends on the request's
\* Accept-Encoding only
Forbidden(r) ==
  [status |-> 403, body |-> "Forbidden",
   headers |-> SecurityHeaders \cup {"Content-Type"}
                 \cup (IF r.acceptGzip THEN {"Content-Encoding"} ELSE {})]

FailsSafety == ~isPathSafe(req.path, root)
FailsAllowList == Len(paths) > 0 /\ ~isPathAllowed(req.path, paths, root)
FailsHidden == isHiddenFileRequest(req.path)
ReachedHandler == \E i \in 1..Len(resp.stages) : resp.stages[i] = "handler"

\* C6: a request that reaches the handler and fails the safety check, the
\* allow-list check or the hidden-file check gets the same 403 response in
\* all three cases, and the file responder is not invoked.
C6_UniformForbidden ==
  (Handled /\ ReachedHandler /\ (FailsSafety \/ FailsAllowList \/ FailsHidden))
    => /\ [status |-> resp.status, body |-> resp.body, headers |-> resp.headers]
            = Forbidden(req)
       /\ ~resp.fsInvoked

C6_Witness ==
  /\ Handled /\ ReachedHandler
  /\ FailsHidden /\ ~FailsSafety /\ ~FailsAllowList
  /\ resp.status = 403 /\ ~resp.fsInvoked

\* a segment that names a hidden file: it starts with a dot and is neither
\* "." nor ".."
IsHiddenSegment(seg) == seg # <<>> /\ seg[1] = "." /\ seg # Dot /\ seg # DotDot

HasHiddenSegment(segs) == \E i \in 1..Len(segs) : IsHiddenSegment(segs[i])

\* C7, as stated: a request path with any segment starting with a dot (other
\* than "." and "..") is reported hidden and is rejected; a path with no
\* such segment is not reported hidden.
C7_HiddenSegmentOfRequestPath ==
  guard.called =>
    /\ guard.hidden = HasHiddenSegment(Split(guard.path))
    /\ HasHiddenSegment(Split(guard.path)) => ~guard.result

\* C7, amended: the segments that count are those of the cleaned request
\* path; a request path whose cleaned form has a segment starting with a dot
\* (other than "." and "..") is reported hidden and is rejected, also under
\* an allowed entry, and a path whose cleaned form has none is not reported
\* hidden.
C7_HiddenSegmentOfCleanedPath ==
  guard.called =>
    /\ guard.hidden = HasHiddenSegment(Elements(Clean(guard.path)))
    /\ HasHiddenSegment(Elements(Clean(guard.path))) => ~guard.result

C7_Witness ==
  /\ guard.called
  /\ Len(paths) > 0 /\ guard.safe /\ guard.allowed
  /\ Len(Elements(Clean(guard.path))) > 1
  /\ HasHiddenSegment(Elements(Clean(guard.path)))
  /\ guard.hidden /\ ~guard.result

\* the request is for the root path: cleaning leaves no element
RootRequest(p) == CleanStack(Split(p), <<>>, IsAbs(p)) = <<>>

\* the elements of the cleaned request path, the leading slash stripped
RequestElements(p) == Elements(TrimPrefix(Clean(p), <<Sep>>))

\* the request equals the root-relative form of entry e or lies beneath it
UnderEntry(p, e) ==
  LET r == EntryRel(e, root)
  IN r.ok /\ IsPrefixOf(Elements(r.path), RequestElements(p))

EntryInsideRoot(e) == InsideRoot(Abs(cwd, e))

\* the location the request names lies at the entry's location or below it
TargetUnderEntry(p, e) ==
  IsPrefixOf(Elements(Abs(cwd, e)), Elements(TextualTarget(p)))

\* C9: an allow-list entry that resolves outside the share root allows
\* nothing: a request (a rooted URL path, or any path that has passed the
\* safety check) that is not for the root path and that the allow-list check
\* allows lies under an entry that resolves inside the share root, and the
\* location it names is inside the share root.
C9_OutsideEntriesIgnored ==
  (/\ guard.called /\ Len(paths) > 0
   /\ IsAbs(guard.path) \/ guard.safe
   /\ guard.allowed) =>
    /\ InsideRoot(TextualTarget(guard.path))
    /\ ~RootRequest(guard.path) =>
         \E i \in 1..Len(paths) :
           EntryInsideRoot(paths[i]) /\ TargetUnderEntry(guard.path, paths[i])

C9_Witness ==
  /\ guard.called
  /\ \E i \in 1..Len(paths) : ~EntryInsideRoot(paths[i])
  /\ \A i \in 1..Len(paths) :
       ~EntryInsideRoot(paths[i]) => ~TargetUnderEntry(guard.path, paths[i])
  /\ IsAbs(guard.path) /\ ~RootRequest(guard.path)
  /\ guard.allowed

\* C10: a relative allow-list entry e (naming something below the root)
\* permits exactly the requests for root/e and below, and the root path,
\* whatever the working directory is.
C10_RelativeEntryIsRootRelative ==
  (/\ guard.called /\ Len(paths) = 1
   /\ ~IsAbs(paths[1]) /\ Clean(paths[1]) # Dot
   /\ IsAbs(guard.path)) =>
    guard.allowed =
      (RootRequest(guard.path)
         \/ IsPrefixOf(Elements(Join(root, paths[1])),
                       Elements(TextualTarget(guard.path))))

\* C11: a request whose Content-Length is above the configured body limit
\* gets 413 and the file responder is not invoked for it; a request whose
\* Content-Length is within the limit is not turned away by the limiter.
C11_OversizedGets413 ==
  Handled =>
    /\ Oversized => resp.status = 413 /\ ~resp.fsInvoked
    /\ ~Oversized => resp.status # 413

AuthConfigured == authUser # "" \/ authPass # ""

CredentialsMatch ==
  req.auth.ok /\ req.auth.user = authUser /\ req.auth.pass = authPass

\* C12: with credentials configured, a request gets to the handler and the
\* file responder only with the configured user name and password; without
\* them it gets 401 with a WWW-Authenticate challenge and nothing runs after
\* the authentication gate. Without credentials configured no request is
\* challenged.
C12_BasicAuthGate ==
  Handled =>
    /\ (AuthConfigured /\ (ReachedHandler \/ resp.fsInvoked)) => CredentialsMatch
    /\ (AuthConfigured /\ ~CredentialsMatch) =>
         /\ resp.status = 401
         /\ "WWW-Authenticate" \in resp.headers
         /\ resp.stages[Len(resp.stages)] = "auth"
         /\ ~resp.fsInvoked
    /\ ~AuthConfigured =>
         /\ resp.status # 401
         /\ "WWW-Authenticate" \notin resp.headers
         /\ StageIndex("auth") = 0

C12_Witness ==
  /\ Handled /\ AuthConfigured
  /\ req.auth.ok /\ req.auth.user = authUser /\ req.auth.pass # authPass
  /\ resp.status = 401 /\ "WWW-Authenticate" \in resp.headers

\* C13: unless the server is quiet, every request produces exactly one
\* access-log entry with its method, path and final status, denied requests
\* (403, 401) included; a quiet server produces none.
C13_EveryRequestLogged ==
  Handled =>
    resp.log = IF quiet THEN <<>>
               ELSE << [method |-> req.method, path |-> req.path,
                        status |-> resp.status] >>

(***************************************************************************)
(* Certificate generation.                                                 *)
(***************************************************************************)
Generated == gen.called /\ ~gen.skipped
Succeeded == gen.called /\ gen.err = "nil"

\* the three files hold what the n-th call generated
HoldsGeneration(d, n) ==
  /\ d.ca.exists /\ d.ca.data = generateCACertificate(CaKey(n))
  /\ d.cert.exists
  /\ d.cert.data = generateServerCertificate(CaKey(n), ServerKey(n))
  /\ d.key.exists /\ d.key.data = MarshalPKCS1PrivateKey(ServerKey(n))

\* leaf verifies against ca: the leaf names the CA as its issuer and its
\* signature was made with the key the CA certificate carries
Verifies(leaf, ca) ==
  /\ leaf.kind = "cert" /\ ca.kind = "cert" /\ ca.isCA
  /\ leaf.issuer = ca.subject
  /\ leaf.signer = ca.pub

\* C14: a call of Generate(false) that finds the server certificate and the
\* CA certificate in place changes none of the three files and returns nil,
\* so a second call in a row leaves what the first one wrote.
C14_UnforcedGenerateIsIdempotent ==
  (gen.called /\ ~gen.force /\ gen.before.cert.exists /\ gen.before.ca.exists)
    => disk = gen.before /\ gen.err = "nil"

C14_Witness ==
  /\ gen.count = 2 /\ ~gen.force /\ gen.skipped
  /\ HoldsGeneration(disk, 1) /\ disk = gen.before

\* C15: a call that generates and succeeds writes a leaf signed with the CA
\* key made in this call, whose issuer is the subject of the CA certificate
\* written in this call: the leaf verifies against that CA certificate.
C15_LeafSignedBySameCallCA ==
  (Generated /\ Succeeded) =>
    /\ disk.ca.data = generateCACertificate(CaKey(gen.count))
    /\ disk.cert.data.signer = CaKey(gen.count)
    /\ disk.cert.data.issuer = disk.ca.data.subject
    /\ Verifies(disk.cert.data, disk.ca.data)

C15_Witness ==
  /\ Generated /\ Succeeded /\ gen.count = 2 /\ gen.before.cert.exists
  /\ gen.before.cert.data # disk.cert.data
  /\ Verifies(disk.cert.data, disk.ca.data)

\* C16: whenever the last call of Generate returned nil, the server
\* certificate on disk verifies against the CA certificate on disk and the
\* key on disk is the key of the server certificate on disk.
C16_DiskConsistentAfterSuccess ==
  Succeeded =>
    /\ disk.ca.exists /\ disk.cert.exists /\ disk.key.exists
    /\ Verifies(disk.cert.data, disk.ca.data)
    /\ disk.key.data.kind = "key"
    /\ disk.key.data.pub = disk.cert.data.pub

\* C17: when Generate(true) returns, either it returned nil and the three
\* files hold the new material, or it returned an error and none of the
\* three files has changed.
C17_ForcedRegenerationIsAtomic ==
  (gen.called /\ gen.force) =>
    \/ gen.err = "nil" /\ HoldsGeneration(disk, gen.count)
    \/ gen.err # "nil" /\ disk = gen.before

\* C18: a call in which the directory creation, the key generation, the
\* signing or the write of one of the three files fails returns an error and
\* prints no completion message; a call that generated and returned nil
\* wrote all three files.
C18_FailureIsReported ==
  /\ (gen.called /\ gen.fault # NoFault) => gen.err # "nil" /\ ~gen.done
  /\ (Generated /\ Succeeded) => HoldsGeneration(disk, gen.count)
  /\ gen.done => Succeeded

C18_Witness ==
  /\ gen.called /\ gen.fault.step = "key" /\ gen.err # "nil" /\ ~gen.done
  /\ disk.ca # gen.before.ca /\ disk.cert # gen.before.cert
  /\ ~HoldsGeneration(disk, gen.count)

\* C19: after a call that generated and returned nil the key file has mode
\* 0600 and the two certificate files have mode 0644, whatever was at the
\* three paths before.
C19_ModesAfterRegeneration ==
  (Generated /\ Succeeded) =>
    /\ disk.key.mode = "0600"
    /\ disk.ca.mode = "0644"
    /\ disk.cert.mode = "0644"

(***************************************************************************)
(* Start of the server.                                                    *)
(***************************************************************************)
ReturnedError == run.pc = "Returned" /\ run.err # "nil"

\* C20: a startup check that fails is the last thing Run does: Run has
\* returned an error and the server never listened; no check is made twice.
\* With the certificate or the key file missing Run does not get past
\* PreflightCheck, with a pair that does not load not past LoadTLSConfig.
C20_FailedStartupIsFatal ==
  /\ \A i \in 1..Len(run.trace) :
       ~run.trace[i].ok =>
         i = Len(run.trace) /\ ReturnedError /\ ~srv.everListened
  /\ \A i, j \in 1..Len(run.trace) :
       run.trace[i].check = run.trace[j].check => i = j
  /\ (run.pc # "Idle" /\ (~disk.cert.exists \/ ~disk.key.exists))
       => ReturnedError /\ ~srv.everListened /\ task.pc = "none"
  /\ (run.pc \notin {"Idle", "PreflightChecked"} /\ loadCertificate(disk) # "nil")
       => ReturnedError /\ ~srv.everListened /\ task.pc = "none"
  /\ srv.everListened => port # "taken"

C20_Witness ==
  /\ ReturnedError /\ ~srv.everListened
  /\ run.trace[Len(run.trace)] = Check("listen", FALSE)
  /\ port = "taken"

(***************************************************************************)
(* Shutdown of the server.                                                 *)
(***************************************************************************)
ShutdownOver == task.pc = "done"

\* C21: of the requests in flight when srv.Shutdown is called, those that
\* finish before Shutdown returns complete, and the others are cut by
\* srv.Close(); no request is cut before the 5 seconds have passed, and
\* srv.Close() is called exactly when Shutdown returned the deadline error.
C21_DrainThenForcedClose ==
  /\ srv.inShutdown => srv.conns + srv.drained + srv.aborted = srv.atShutdown
  /\ srv.aborted > 0 => task.forced
  /\ task.forced => task.expired /\ ShutdownOver
  /\ task.pc = "closing" => task.expired
  /\ ShutdownOver => srv.conns = 0
  /\ (ShutdownOver /\ ~task.forced) => srv.drained = srv.atShutdown

C21_Witness ==
  /\ ShutdownOver /\ task.forced
  /\ srv.atShutdown = 2 /\ srv.drained = 1 /\ srv.aborted = 1

\* C22: Run does not return while srv.Shutdown or srv.Close() is under way,
\* and it returns nil only after the goroutine has finished the drain or the
\* forced close and closed idleConnsClosed.
C22_RunWaitsForCompletion ==
  /\ (run.pc = "Returned" /\ run.err = "nil")
       => ShutdownOver /\ task.idleConnsClosed /\ srv.conns = 0
  /\ run.pc = "Returned" => task.pc \notin {"draining", "closing"}

C22_Witness ==
  /\ run.pc = "Returned" /\ run.err = "nil"
  /\ ShutdownOver /\ ~task.forced /\ srv.atShutdown = 2 /\ srv.drained = 2

\* C23: once a signal has been delivered to a listening server, Run
\* eventually returns.
C23_SignalLeadsToReturn ==
  (task.firstAt = "Listening") ~> (run.pc = "Returned")

\* C24: when Run returns after srv.Shutdown was called it returns nil,
\* whether Shutdown drained the requests or srv.Close() had to cut them.
C24_DrainFailureNotPropagated ==
  (run.pc = "Returned" /\ srv.inShutdown) => run.err = "nil"

C24_Witness ==
  /\ run.pc = "Returned" /\ run.err = "nil"
  /\ srv.inShutdown /\ task.forced /\ srv.aborted = 2

AEAD == {"AES_128_GCM", "AES_256_GCM", "CHACHA20_POLY1305"}

\* C25: the configuration LoadTLSConfig produces has minimum version
\* TLS 1.2, cipher suites that are all ECDHE with AES-GCM or
\* ChaCha20-Poly1305, the curves X25519 and P-256 and nothing else, and
\* asks for no client certificate.
C25_TLSPolicy ==
  run.tlsConfig # NoConfig =>
    /\ run.tlsConfig.MinVersion = "VersionTLS12"
    /\ Len(run.tlsConfig.CipherSuites) > 0
    /\ \A i \in 1..Len(run.tlsConfig.CipherSuites) :
         /\ run.tlsConfig.CipherSuites[i].kx = "ECDHE"
         /\ run.tlsConfig.CipherSuites[i].cipher \in AEAD
    /\ run.tlsConfig.CurvePreferences = << "X25519", "CurveP256" >>
    /\ run.tlsConfig.ClientAuth = "NoClientCert"

C25_Witness ==
  /\ srv.listening
  /\ srv.TLSConfig = run.tlsConfig
  /\ srv.TLSConfig.Certificates =
       << [cert |-> disk.cert.data, key |-> disk.key.data] >>
  /\ Len(srv.TLSConfig.CipherSuites) = 6

\* the state of the lifecycle the server is in
Lifecycle ==
  IF run.pc \in {"Returned", "Killed"} THEN "Stopped"
  ELSE IF srv.inShutdown THEN "ShuttingDown"
  ELSE IF run.pc = "Listening" THEN "Listening"
  ELSE IF run.pc = "Idle" THEN "Idle"
  ELSE "PreflightChecked"

Rank(l) ==
  CASE l = "Idle" -> 0
    [] l = "PreflightChecked" -> 1
    [] l = "Listening" -> 2
    [] l = "ShuttingDown" -> 3
    [] l = "Stopped" -> 4

Passed(name) ==
  \E i \in 1..Len(run.trace) : run.trace[i] = Check(name, TRUE)

\* C26: the lifecycle never moves back; Listening is entered with every
\* check of PreflightCheck and the load of the key pair passed;
\* ShuttingDown is entered by the goroutine that has received a signal; in
\* ShuttingDown the server does not listen and takes no new connection.
C26_LifecycleMovesForward ==
  [][ /\ Rank(Lifecycle') >= Rank(Lifecycle)
      /\ (Lifecycle' = "Listening" /\ Lifecycle # "Listening") =>
           /\ Passed("stat cert") /\ Passed("stat key") /\ Passed("probe")
           /\ Passed("load pair")
      /\ (Lifecycle' = "ShuttingDown" /\ Lifecycle # "ShuttingDown") =>
           task.pc = "signalled" /\ task.signals > 0
      /\ Lifecycle = "ShuttingDown" =>
           /\ ~srv.listening /\ ~srv'.listening
           /\ srv'.conns <= srv.conns
           /\ run'.pc = "Listening" => run.pc = "Listening" ]_vars

C26_Witness ==
  /\ Lifecycle = "Stopped" /\ run.pc = "Returned"
  /\ srv.everListened /\ srv.inShutdown /\ srv.accepted

\* C27: when the first signal is delivered after the goroutine was started
\* and before ListenAndServeTLS is called, the process is not ended by it,
\* the server never listens nor takes a connection, and Run does not return
\* an error nor return before idleConnsClosed is closed.
C27_SignalBeforeServe ==
  task.firstAt = "Ready" =>
    /\ run.pc # "Killed"
    /\ ~srv.everListened /\ ~srv.accepted
    /\ run.pc = "Returned" => run.err = "nil" /\ task.idleConnsClosed

\* C28: after Generate has returned nil the three files exist and
\* checkCertificateFiles passes.
C28_SuccessMeansAllFilesExist ==
  Succeeded =>
    /\ disk.ca.exists /\ disk.cert.exists /\ disk.key.exists
    /\ checkCertificateFiles(disk) = "nil"

\* C29: srv.Shutdown is called once and idleConnsClosed is closed once in a
\* run; a signal delivered while Shutdown or Close is under way changes
\* neither Run, nor the server, nor the deadline, nor where the goroutine is.
C29_OneSignalOneShutdown ==
  [][ /\ task'.shutdowns <= 1 /\ task'.closes <= 1
      /\ task'.pc = "done" => task'.shutdowns = 1 /\ task'.closes = 1
      /\ (task'.signals > task.signals /\ task.pc \in {"draining", "closing"})
           => /\ run' = run /\ srv' = srv /\ port' = port
              /\ task'.pc = task.pc /\ task'.expired = task.expired ]_vars

C29_Witness ==
  /\ task.pc \in {"draining", "closing"} /\ task.signals = 2
  /\ task.sigChan = 1 /\ Alive /\ srv.conns > 0

(***************************************************************************)
(* The allow-list entry that is the root.                                  *)
(***************************************************************************)
\* the only entry of the allow-list resolves to the root: its root-relative
\* form is "."
OnlyEntryIsRoot ==
  /\ Len(paths) = 1
  /\ EntryRel(paths[1], root).ok
  /\ EntryRel(paths[1], root).path = Dot

\* C30: when the only entry of the allow-list resolves to the root,
\* isPathAllowed is false for every request path that is not the root path.
C30_RootEntryMatchesNothing ==
  (guard.called /\ OnlyEntryIsRoot /\ ~RootRequest(guard.path))
    => ~guard.allowed /\ ~guard.result

C30_Witness ==
  /\ guard.called /\ OnlyEntryIsRoot
  /\ guard.path = <<"/", "d">>
  /\ guard.safe /\ ~guard.hidden
  /\ ~guard.allowed /\ ~guard.result

====
